---- MODULE Spec2Model ----
(***************************************************************************)
(* Session validation, login rate limiting, logout and password change of  *)
(* the priotag backend (backend/src/priotag/utils.py and                   *)
(* backend/src/priotag/api/routes/auth.py).                                *)
(*                                                                         *)
(* The process is an asyncio server: a handler runs without interruption   *)
(* between two awaits, and every await is a call to the identity provider  *)
(* (PocketBase).  Each provider call is therefore two steps: the provider  *)
(* processes the call (Pb... actions), and later the handler resumes with  *)
(* the answer.  Redis calls are synchronous and are part of the handler    *)
(* step that makes them.  verify_token guards each of its cache calls with *)
(* try/except and goes on when one fails; these calls may fail here too.   *)
(* The other handlers have no such branch and their cache calls are taken  *)
(* to answer.  The provider may be unreachable on any call.                *)
(***************************************************************************)
EXTENDS Integers, Sequences, FiniteSets, TLC

\* ---------------------------------------------------------------- bounds
MaxTokens == 3
MaxInFlight == 2
MaxSalts == 1
MaxBurst == 1
MaxRegTokens == 1
DekLen == 2
MaxDraws == 3
MaxTasks == 2

\* ------------------------------------------------------ program constants
LoginLimit == 5
LoginWindow == 60
MagicLimit == 10
DekCacheTTL == 1800
LastSeenInterval == 3600
AdminTTL == 900
SessionTTL == 28800
PersistentTTL == 2592000

\* ------------------------------------------------------------- universes
Users == {"u1", "adm", "svc", "new"}
Passwords == {"p1", "p2"}
IPs == {"ip1", "ip2"}
Tokens == Users \X (1..MaxTokens)
Slots == 1..MaxInFlight
NoToken == <<"nobody", 0>>
NoUser == "nobody"
NoSession == [id |-> NoUser, role |-> "none", is_admin |-> FALSE, ttl |-> 0]
\* what a failed computation leaves: cryptography's InvalidTag, binascii.Error
DecryptError == [error |-> "InvalidTag"]
BadBase64 == [error |-> "binascii.Error"]
Raises(v) == "error" \in DOMAIN v
\* the password field of an identity the provider has no record of
NoPassword == "unset"

RoleOf(u) == CASE u = "adm" -> "institution_admin" [] u = "svc" -> "service" [] OTHER -> "user"
Registered == Users \ {"new"}
\* generate_dek: the key drawn for a user, DekLen bits wide here
KeyBits(n) == [bits |-> [i \in 1..DekLen |-> (n \div (2 ^ (i - 1))) % 2]]
DekOf(u) == KeyBits(CASE u = "u1" -> 1 [] u = "adm" -> 2 [] u = "svc" -> 3 [] OTHER -> 0)

VARIABLES
    users,       \* provider: users collection, id -> record
    issued,      \* provider: tokens it has signed; a token names its user
    tokValid,    \* provider: tokens auth-refresh still accepts
    nextSalt,    \* the next values of os.urandom: salts and nonces
    session,     \* redis: session:<token> -> session info and the TTL it was written with
    blacklist,   \* redis: blacklist:<token>
    rlIp,        \* redis: rate_limit:login:<ip> -> counter and remaining lifetime
    rlId,        \* redis: rate_limit:login:identity:<identity>
    reg,         \* redis: unused reg_token:* keys, reg_identity:* locks, rate_limit:magic_word
    dekCache,    \* redis: dek:<user_id>:<token> -> encrypted server part, with the TTL written
    req,         \* requests in flight, one per slot
    resp,        \* the response on its way to the client (NoResp: none)
    hadSession,  \* history: tokens a response has established as session tokens
    revoked,     \* history: tokens that had a session before a password change of their user succeeded
    recent,      \* history: ages of the consecutive failed logins per identity
    calc,        \* the last call of an EncryptionManager function: arguments and result
    priorities,  \* provider: priorities collection, user id -> encrypted_fields of the month's record
    lastSeen     \* lastSeen of the users: the throttle keys in redis, the update tasks
                 \* under way, the age of the last write to the record store

pbvars == <<users, issued, tokValid, nextSalt>>
redisvars == <<session, blacklist, rlIp, rlId, reg, dekCache>>
histvars == <<hadSession, revoked, recent>>
vars == <<users, issued, tokValid, nextSalt, session, blacklist, rlIp, rlId, reg, dekCache,
          req, resp, hadSession, revoked, recent, calc, priorities, lastSeen>>

\* ------------------------------------------------------------ encryption
\* base64.b64encode and b64decode: text that carries the bytes
b64encode(x) == [b64 |-> x]
b64decode(y) == IF "b64" \in DOMAIN y THEN y.b64 ELSE BadBase64

\* derive_key_from_password: PBKDF2, deterministic in (password, salt)
\* (mutation) the key depends on the salt alone
derive_key_from_salt(password, salt) == [kdf |-> <<"", salt>>]

derive_key_from_password(password, salt) == [kdf |-> <<password, salt>>]

\* AES-GCM: the ciphertext is the data under the key stream of (key, nonce),
\* the tag authenticates key, nonce and ciphertext
Ciphertext(key, nonce, data) == [key |-> key, nonce |-> nonce, data |-> data]
Tag(key, nonce, ct) == [mac |-> key, nonce |-> nonce, ct |-> ct]

\* (mutation) the nonce is a constant
encrypt_data_fixed_nonce(data, key, nonce) ==
    b64encode([nonce |-> 0, ct |-> Ciphertext(key, 0, data),
               tag |-> Tag(key, 0, Ciphertext(key, 0, data))])

\* encrypt_data with the nonce that os.urandom(12) gave: base64 of nonce + ciphertext + tag
encrypt_data(data, key, nonce) ==
    b64encode([nonce |-> nonce, ct |-> Ciphertext(key, nonce, data),
               tag |-> Tag(key, nonce, Ciphertext(key, nonce, data))])

\* what the key stream of (key, nonce) leaves of a ciphertext
StreamDecrypt(ct, key, nonce) ==
    IF ct.key = key /\ ct.nonce = nonce THEN ct.data ELSE [garbage |-> ct]

\* (mutation) the tag is not verified
decrypt_data_unauthenticated(encrypted_data, key) ==
    LET encrypted == b64decode(encrypted_data) IN
    IF Raises(encrypted) THEN encrypted
    ELSE StreamDecrypt(encrypted.ct, key, encrypted.nonce)

\* decrypt_data: base64 decoding, then AESGCM.decrypt, which verifies the tag
decrypt_data(encrypted_data, key) ==
    LET encrypted == b64decode(encrypted_data) IN
    IF Raises(encrypted) THEN encrypted
    ELSE IF encrypted.tag # Tag(key, encrypted.nonce, encrypted.ct) THEN DecryptError
    ELSE StreamDecrypt(encrypted.ct, key, encrypted.nonce)

\* the DEK, base64, encrypted under a password key
WrapDek(dek, key, nonce) == encrypt_data(b64encode(dek), key, nonce)

\* (mutation) the unwrapping does not notice a wrong key
get_user_dek_unchecked(password, salt, wrapped) == b64decode(b64decode(wrapped).ct.data)

\* get_user_dek: the salt decoded, the key derived, the DEK decrypted and decoded
get_user_dek(password, salt, wrapped) ==
    LET dek_b64 == decrypt_data(wrapped, derive_key_from_password(password, b64decode(salt)))
    IN IF Raises(dek_b64) THEN dek_b64 ELSE b64decode(dek_b64)

\* EncryptionManager.change_password: new salt, same DEK, new wrapping
\* (mutation) the change wraps a key of its own making
change_password_data_new_dek(old_password, new_password, salt, wrapped, new_salt, nonce) ==
    LET dek == get_user_dek(old_password, salt, wrapped) IN
    IF Raises(dek) THEN dek
    ELSE [salt |-> b64encode(new_salt),
          user_wrapped_dek |-> WrapDek([bits |-> [i \in 1..DekLen |-> 1 - dek.bits[i]]],
                                       derive_key_from_password(new_password, new_salt), nonce)]

change_password_data(old_password, new_password, salt, wrapped, new_salt, nonce) ==
    LET dek == get_user_dek(old_password, salt, wrapped) IN
    IF Raises(dek) THEN dek
    ELSE [salt |-> b64encode(new_salt),
          user_wrapped_dek |-> WrapDek(dek, derive_key_from_password(new_password, new_salt), nonce)]

\* _get_server_cache_key: the process-wide key of cached DEK parts
\* json.dumps of a map: the text lists its members
json_dumps(fields) == [json |-> {<<k, fields[k]>> : k \in DOMAIN fields}]

\* json.loads: the map of the members the text lists
json_loads(text) ==
    IF "json" \in DOMAIN text
    THEN [k \in {member[1] : member \in text.json} |->
             (CHOOSE member \in text.json : member[1] = k)[2]]
    ELSE [error |-> "JSONDecodeError"]

encrypt_fields(fields, dek, nonce) == encrypt_data(json_dumps(fields), dek, nonce)

\* (mutation) the decrypted text is returned unparsed
decrypt_fields_raw(encrypted_json, dek) == decrypt_data(encrypted_json, dek)

decrypt_fields(encrypted_json, dek) ==
    LET json_str == decrypt_data(encrypted_json, dek) IN
    IF Raises(json_str) THEN json_str ELSE json_loads(json_str)

\* the institution's RSA key pair
AdminPublicKey == [rsa_public |-> "institution"]
AdminPrivateKey == [rsa_private |-> "institution"]

\* (mutation) the DEK is stored for the admin as it is
wrap_dek_plain(dek, admin_public_key_pem, seed) == b64encode(dek)

\* RSA-OAEP under the public key; the padding takes a fresh seed
wrap_dek_with_admin_key(dek, admin_public_key_pem, seed) ==
    b64encode([rsa |-> admin_public_key_pem.rsa_public, seed |-> seed, dek |-> dek])

\* the admin's side: RSA-OAEP decryption with the private key
AdminUnwrap(admin_wrapped_dek, private_key) ==
    LET admin_wrapped_bytes == b64decode(admin_wrapped_dek) IN
    IF Raises(admin_wrapped_bytes) THEN admin_wrapped_bytes
    ELSE IF "rsa" \in DOMAIN admin_wrapped_bytes
            /\ admin_wrapped_bytes.rsa = private_key.rsa_private
         THEN admin_wrapped_bytes.dek
         ELSE [error |-> "Decryption failed"]

ServerCacheKey == [server_cache_key |-> "process"]

\* zip(a, b, strict=False) with xor: as long as the shorter of the two
XorBytes(a, b) ==
    LET n == IF Len(a.bits) < Len(b.bits) THEN Len(a.bits) ELSE Len(b.bits)
    IN [bits |-> [i \in 1..n |-> (a.bits[i] + b.bits[i]) % 2]]

\* split_dek with the server part that os.urandom(len(dek)) gave
split_dek(dek, server_part_bytes) ==
    [server_part |-> b64encode(server_part_bytes),
     client_part |-> b64encode(XorBytes(dek, server_part_bytes))]

\* (mutation) the server part is ignored
reconstruct_dek_client_only(server_part, client_part) == b64decode(client_part)

\* reconstruct_dek: both parts decoded and xor-ed
reconstruct_dek(server_part, client_part) ==
    LET server_bytes == b64decode(server_part)
        client_bytes == b64decode(client_part)
    IN IF Raises(server_bytes) THEN server_bytes
       ELSE IF Raises(client_bytes) THEN client_bytes
       ELSE XorBytes(server_bytes, client_bytes)

encrypt_dek_part(dek_part, nonce) == encrypt_data(dek_part, ServerCacheKey, nonce)
decrypt_dek_part(encrypted_dek_part) == decrypt_data(encrypted_dek_part, ServerCacheKey)

\* get_dek_from_request raises ValueError on a miss of the balanced tier
ReauthError == [error |-> "DEK cache expired or not found. Please re-authenticate."]

\* (mutation) a miss falls back to the direct decoding of the other tiers
DekFromRequestFallback(dek_or_client_part, security_tier, cached) ==
    IF security_tier = "balanced" /\ cached # {}
    THEN LET server_part == decrypt_dek_part((CHOOSE e \in cached : TRUE).encrypted_server_part)
         IN IF Raises(server_part) THEN server_part
            ELSE reconstruct_dek(server_part, dek_or_client_part)
    ELSE b64decode(dek_or_client_part)

\* get_dek_from_request, what it returns or raises: cached is what redis holds
\* under the key (empty: nothing)
DekFromRequest(dek_or_client_part, security_tier, cached) ==
    IF security_tier = "balanced"
    THEN IF cached = {} THEN ReauthError
         ELSE LET server_part == decrypt_dek_part((CHOOSE e \in cached : TRUE).encrypted_server_part)
              IN IF Raises(server_part) THEN server_part
                 ELSE reconstruct_dek(server_part, dek_or_client_part)
    ELSE b64decode(dek_or_client_part)

\* ------------------------------------------------------------- sessions
extract_session_info_from_record(id, role) ==
    [id |-> id, role |-> role, is_admin |-> role \in {"institution_admin", "super_admin"}]

\* (mutation) the entry does not carry the id of the identity
WithTTLAnonymous(info, ttl) == [id |-> NoUser, role |-> info.role, is_admin |-> info.is_admin, ttl |-> ttl]

\* the session entry: SessionInfo, stored with setex for ttl seconds
WithTTL(info, ttl) == [id |-> info.id, role |-> info.role, is_admin |-> info.is_admin, ttl |-> ttl]

NoInfo == [id |-> NoUser, role |-> "none", is_admin |-> FALSE]
InfoOf(entry) == [id |-> entry.id, role |-> entry.role, is_admin |-> entry.is_admin]

\* verify_token: TTL of a restored or rotated session
RestoreTTL(is_admin) == IF is_admin THEN AdminTTL ELSE SessionTTL

\* login_user: TTL by security mode, admins always short
LoginTTL(is_admin, keep_logged_in) ==
    IF is_admin THEN AdminTTL
    ELSE IF keep_logged_in THEN PersistentTTL ELSE SessionTTL

\* change_password: TTL of the new session
ChangePasswordTTL(is_admin) == IF is_admin THEN AdminTTL ELSE SessionTTL

\* ------------------------------------------------------------- requests
NoRec == [role |-> "none", salt |-> b64encode(0), user_wrapped_dek |-> b64encode(0)]
NoDek == [none |-> "dek"]
NoCookie == [auth |-> NoToken, dek |-> NoDek, max_age |-> 0]

Idle == [op |-> "idle", pc |-> "idle", token |-> NoToken, identity |-> NoUser,
         password |-> "p1", new_password |-> "p1", keep |-> FALSE, ip |-> "ip1",
         pbStatus |-> "none", pbToken |-> NoToken, pbId |-> NoUser, pbRec |-> NoRec,
         current_session |-> NoInfo, updated |-> [salt |-> NoRec.salt, user_wrapped_dek |-> NoRec.user_wrapped_dek],
         cookie |-> NoCookie, wasRevoked |-> FALSE, wasBlacklisted |-> FALSE, blFound |-> FALSE,
         limited |-> FALSE, cacheFailed |-> FALSE]

NoResp == [op |-> "none", status |-> 0, token |-> NoToken, identity |-> NoUser,
           info |-> NoInfo, cookie |-> NoCookie, pbCalled |-> FALSE, wasRevoked |-> FALSE,
           limited |-> FALSE, password |-> "p1", keep |-> FALSE,
           wasBlacklisted |-> FALSE, blFound |-> FALSE, at |-> "idle", pbStatus |-> "none",
           removed |-> {}, cacheFailed |-> FALSE]

Respond(r, status, info, cookie, pbCalled) ==
    [op |-> r.op, status |-> status, token |-> r.token, identity |-> r.identity,
     info |-> info, cookie |-> cookie, pbCalled |-> pbCalled, wasRevoked |-> r.wasRevoked,
     limited |-> r.limited, password |-> r.password, keep |-> r.keep,
     wasBlacklisted |-> r.wasBlacklisted, blFound |-> r.blFound, at |-> r.pc,
     pbStatus |-> r.pbStatus, removed |-> {}, cacheFailed |-> r.cacheFailed]

\* no record of the month in the priorities collection
NoRecord == [none |-> "record"]

\* no update_last_seen task in a slot; nothing was written or throttled yet
NoTask == [pc |-> "none", user_id |-> NoUser, token |-> NoToken]
NoneSeen == [throttle |-> [u \in Users |-> 0], age |-> [u \in Users |-> LastSeenInterval],
             tasks |-> [i \in 1..MaxTasks |-> NoTask], early |-> {}]

\* no EncryptionManager call was made yet
NoArgs == [none |-> "args"]
NoSplit == [dek |-> NoDek, server_part |-> NoDek, client_part |-> NoDek]
NoCalc == [op |-> "none", args |-> NoArgs, out |-> NoDek, blobs |-> {}, split |-> NoSplit]

\* a step that sends no response
Silent == resp' = NoResp

\* a response is sent while no other is on its way
Ready == resp = NoResp

OwnerOf(t) == t[1]
\* the tokens a client can present: those a response has handed out in a cookie,
\* and the service account's tokens that the provider holds valid
Presentable == hadSession \cup {t \in tokValid : OwnerOf(t) = "svc"}
FreshTokens(u) == {t \in Tokens \ issued : OwnerOf(t) = u /\ \A t2 \in Tokens \ issued : OwnerOf(t2) = u => t[2] <= t2[2]}

\* the provider has signed tokens before: of each user's tokens, all but the
\* first budget[user] were issued in the past and have run out since
Past(budget) == {t \in Tokens : t[2] > budget[OwnerOf(t)]}

InitWith(budget) ==
    /\ users = [u \in Users |->
                  [password |-> IF u \in Registered THEN "p1" ELSE NoPassword,
                   salt |-> b64encode(0), role |-> RoleOf(u),
                   user_wrapped_dek |-> WrapDek(DekOf(u), derive_key_from_password("p1", 0), 0),
                   admin_wrapped_dek |-> wrap_dek_with_admin_key(DekOf(u), AdminPublicKey, 0),
                   encrypted_fields |-> encrypt_fields([name |-> [str |-> u]], DekOf(u), 0)]]
    /\ issued = Past(budget)
    /\ tokValid = {}
    /\ nextSalt = 1
    /\ session = [t \in Tokens |-> NoSession]
    /\ blacklist = {}
    /\ rlIp = [i \in IPs |-> [n |-> 0, left |-> 0]]
    /\ rlId = [u \in Users |-> [n |-> 0, left |-> 0]]
    /\ reg = [tokens |-> 0, lock |-> {}, magic |-> 0]
    /\ dekCache = {}
    /\ calc = NoCalc
    /\ priorities = [u \in Users |-> NoRecord]
    /\ lastSeen = NoneSeen
    /\ req = [s \in Slots |-> Idle]
    /\ resp = NoResp
    /\ hadSession = {}
    /\ revoked = {}
    /\ recent = [u \in Users |-> <<>>]

\* ------------------------------------------------- identity provider
\* a token the provider may hand out for user u: an unused one, or again one
\* that it issued to u and still accepts (a token signed within the same second
\* is the same token, auth.py:658-659)
TokensFor(u) == FreshTokens(u) \cup {t \in tokValid : OwnerOf(t) = u}

PbIssue(t) ==
    /\ issued' = issued \cup {t}
    /\ tokValid' = tokValid \cup {t}

RecordOf(u) == [role |-> users[u].role, salt |-> users[u].salt,
                user_wrapped_dek |-> users[u].user_wrapped_dek]

\* POST /api/collections/users/auth-refresh with the presented token
PbAuthRefresh(s) ==
    /\ req[s].pc = "vt_refresh"
    /\ \/ /\ req[s].token \in tokValid
          /\ \E nt \in TokensFor(OwnerOf(req[s].token)) :
                /\ PbIssue(nt)
                /\ req' = [req EXCEPT ![s].pc = "vt_resume", ![s].pbStatus = "ok",
                                      ![s].pbToken = nt, ![s].pbId = OwnerOf(req[s].token),
                                      ![s].pbRec = RecordOf(OwnerOf(req[s].token))]
       \/ /\ req[s].token \notin tokValid
          /\ req' = [req EXCEPT ![s].pc = "vt_resume", ![s].pbStatus = "rejected"]
          /\ UNCHANGED <<issued, tokValid>>
       \/ /\ req' = [req EXCEPT ![s].pc = "vt_resume", ![s].pbStatus = "unreachable"]
          /\ UNCHANGED <<issued, tokValid>>
    /\ UNCHANGED <<priorities, lastSeen, calc, users, nextSalt, redisvars, histvars>>
    /\ Silent

\* ------------------------------------------------------- verify_token
\* what follows a verified identity: the /verify endpoint answers, the
\* change-password endpoint enters its body and fetches the user record
Authenticated(s, r, info, cookie, pbCalled) ==
    IF r.op = "verify"
    THEN /\ resp' = Respond(r, 200, info, cookie, pbCalled)
         /\ req' = [req EXCEPT ![s] = Idle]
    ELSE /\ req' = [req EXCEPT ![s] = [r EXCEPT !.pc = "cp_get", !.current_session = info,
                                                !.identity = info.id, !.cookie = cookie,
                                                !.cacheFailed = FALSE]]
         /\ Silent

\* (mutation) the session cache is read before the blacklist
VerifyTokenBeginCacheFirst(s, r0) ==
    \E blOk \in BOOLEAN, getOk \in BOOLEAN :
        LET r == [r0 EXCEPT !.blFound = (blOk /\ r0.token \in blacklist)] IN
        IF getOk /\ session[r.token] # NoSession
        THEN Authenticated(s, r, InfoOf(session[r.token]), NoCookie, FALSE)
        ELSE IF r.blFound
        THEN /\ resp' = Respond(r, 401, NoInfo, NoCookie, FALSE)
             /\ UNCHANGED req
        ELSE /\ req' = [req EXCEPT ![s] = [r EXCEPT !.pc = "vt_refresh"]]
             /\ Silent

\* verify_token up to its first await: blacklist, then session cache.  A failed
\* blacklist lookup is passed over, a failed cache read counts as a miss.
VerifyTokenBegin(s, r0) ==
    \E blOk \in BOOLEAN, getOk \in BOOLEAN :
        LET r == [r0 EXCEPT !.blFound = (blOk /\ r0.token \in blacklist)] IN
        IF r.blFound
        THEN /\ resp' = Respond(r, 401, NoInfo, NoCookie, FALSE)
             /\ UNCHANGED req
        ELSE IF getOk /\ session[r.token] # NoSession
        THEN Authenticated(s, r, InfoOf(session[r.token]), NoCookie, FALSE)
        ELSE /\ req' = [req EXCEPT ![s] = [r EXCEPT !.pc = "vt_refresh"]]
             /\ Silent

\* GET /verify
VerifyRequest(s, t) ==
    /\ req[s] = Idle
    /\ VerifyTokenBegin(s, [Idle EXCEPT !.op = "verify", !.token = t, !.wasRevoked = (t \in revoked),
                                 !.wasBlacklisted = (t \in blacklist)])
    /\ UNCHANGED <<priorities, lastSeen, calc, pbvars, redisvars, histvars>>

\* (mutation) every failed refresh is an authentication failure
RefreshFailureUnauthorized(pbStatus) == 401

\* verify_token when the refresh gave no identity: a non-200 answer is an
\* authentication failure, an httpx.RequestError is upstream-unavailable
RefreshFailureStatus(pbStatus) == IF pbStatus = "unreachable" THEN 503 ELSE 401

\* (mutation) the rotation writes the new entry and leaves the old one
RotateSessionKeepOld(old, new, entry, delOk, setOk) ==
    [session EXCEPT ![new] = IF setOk THEN entry ELSE @]

\* verify_token after a rotation: delete the entry of the old token, then write
\* the entry of the new one; each command may fail and is then passed over
RotateSession(old, new, entry, delOk, setOk) ==
    [session EXCEPT ![old] = IF delOk THEN NoSession ELSE @,
                    ![new] = IF setOk THEN entry ELSE @]

\* verify_token after the provider's answer to auth-refresh.  cacheFailed
\* records for the response that a cache command of this call raised.
VerifyTokenResume(s) ==
    LET r == req[s]
        info == extract_session_info_from_record(r.pbId, r.pbRec.role)
        ttl == RestoreTTL(info.is_admin)
    IN
    /\ r.pc = "vt_resume"
    /\ IF r.pbStatus # "ok"
       THEN /\ resp' = Respond(r, RefreshFailureStatus(r.pbStatus), NoInfo, NoCookie, TRUE)
            /\ req' = [req EXCEPT ![s] = Idle]
            /\ UNCHANGED <<session, hadSession>>
       ELSE \E delOk \in BOOLEAN, setOk \in BOOLEAN :
               /\ IF r.pbToken # r.token
                  THEN /\ session' = RotateSession(r.token, r.pbToken, WithTTL(info, ttl),
                                                    delOk, setOk)
                       /\ Authenticated(s, [r EXCEPT !.cacheFailed = ~(delOk /\ setOk)], info,
                               [auth |-> r.pbToken, dek |-> NoDek, max_age |-> ttl], TRUE)
                  ELSE /\ session' = [session EXCEPT
                                         ![r.token] = IF setOk THEN WithTTL(info, ttl) ELSE @]
                       /\ Authenticated(s, [r EXCEPT !.cacheFailed = ~setOk], info,
                               NoCookie, TRUE)
               /\ hadSession' = hadSession \cup {r.pbToken}
    /\ UNCHANGED <<priorities, lastSeen, dekCache, calc, reg, pbvars, blacklist, rlIp, rlId, revoked, recent>>

\* ------------------------------------------------------------- logout
logout_user(t) ==
    /\ session' = [session EXCEPT ![t] = NoSession]
    /\ blacklist' = blacklist \cup {t}
    /\ resp' = Respond([Idle EXCEPT !.op = "logout", !.token = t], 200, NoInfo, NoCookie, FALSE)
    /\ UNCHANGED <<priorities, lastSeen, dekCache, calc, reg, pbvars, rlIp, rlId, req, histvars>>

\* ------------------------------------------------------- cache expiry
\* a session entry disappears: its TTL ran out, or the cache evicted it
ExpireSession(t) ==
    /\ session[t] # NoSession
    /\ session' = [session EXCEPT ![t] = NoSession]
    /\ UNCHANGED <<priorities, lastSeen, dekCache, calc, reg, pbvars, blacklist, rlIp, rlId, req, histvars>>
    /\ Silent

\* a blacklist entry reaches the end of its 30 days
ExpireBlacklist(t) ==
    /\ t \in blacklist
    /\ blacklist' = blacklist \ {t}
    /\ UNCHANGED <<priorities, lastSeen, dekCache, calc, reg, pbvars, session, rlIp, rlId, req, histvars>>
    /\ Silent

\* -------------------------------------------------------------- login
NoCounter == [n |-> 0, left |-> 0]

\* redis incr followed by expire(key, 60)
IncrExpire(c) == [n |-> c.n + 1, left |-> LoginWindow]

\* the attempts recorded for an identity that are younger than the window
Young(ages) == {i \in 1..Len(ages) : ages[i] < LoginWindow}

\* (mutation) the comparison is off by one
RateLimitedAbove(c) == c.n > LoginLimit

\* login_user: a counter at the limit rejects the attempt
RateLimited(c) == c.n >= LoginLimit

\* (mutation) a rejected attempt starts the 60 seconds of its counters again
login_user_extending(s, identity, password, keep, ip) ==
    LET r == [Idle EXCEPT !.op = "login", !.identity = identity, !.password = password,
                          !.keep = keep, !.ip = ip,
                          !.limited = (Cardinality(Young(recent[identity])) >= LoginLimit)]
    IN
    /\ req[s] = Idle
    /\ IF RateLimited(rlIp[ip]) \/ RateLimited(rlId[identity])
       THEN /\ resp' = Respond(r, 429, NoInfo, NoCookie, FALSE)
            /\ rlIp' = [rlIp EXCEPT ![ip] = IF @.n > 0 THEN [@ EXCEPT !.left = LoginWindow] ELSE @]
            /\ rlId' = [rlId EXCEPT ![identity] = IF @.n > 0 THEN [@ EXCEPT !.left = LoginWindow] ELSE @]
            /\ UNCHANGED <<req, recent>>
       ELSE /\ rlIp' = [rlIp EXCEPT ![ip] = IncrExpire(@)]
            /\ rlId' = [rlId EXCEPT ![identity] = IncrExpire(@)]
            /\ req' = [req EXCEPT ![s] = [r EXCEPT !.pc = "li_auth"]]
            /\ recent' = [recent EXCEPT ![identity] = Append(@, 0)]
            /\ Silent
    /\ UNCHANGED <<priorities, lastSeen, dekCache, calc, reg, pbvars, session, blacklist, hadSession, revoked>>

\* POST /login up to the call of the provider: both rate limits, then both counters
login_user(s, identity, password, keep, ip) ==
    LET r == [Idle EXCEPT !.op = "login", !.identity = identity, !.password = password,
                          !.keep = keep, !.ip = ip,
                          !.limited = (Cardinality(Young(recent[identity])) >= LoginLimit)]
    IN
    /\ req[s] = Idle
    /\ IF RateLimited(rlIp[ip]) \/ RateLimited(rlId[identity])
       THEN /\ resp' = Respond(r, 429, NoInfo, NoCookie, FALSE)
            /\ UNCHANGED <<req, rlIp, rlId, recent>>
       ELSE /\ rlIp' = [rlIp EXCEPT ![ip] = IncrExpire(@)]
            /\ rlId' = [rlId EXCEPT ![identity] = IncrExpire(@)]
            /\ req' = [req EXCEPT ![s] = [r EXCEPT !.pc = "li_auth"]]
            /\ recent' = [recent EXCEPT ![identity] = Append(@, 0)]
            /\ Silent
    /\ UNCHANGED <<priorities, lastSeen, dekCache, calc, reg, pbvars, session, blacklist, hadSession, revoked>>

\* POST /api/collections/users/auth-with-password, from login, change-password
\* and the two registrations
PbAuthWithPassword(s) ==
    LET r == req[s]
        pw == IF r.pc = "cp_auth" THEN r.new_password ELSE r.password
        done == CASE r.pc = "li_auth" -> "li_authed" [] r.pc = "cp_auth" -> "cp_authed"
                  [] OTHER -> "rg_authed"
    IN
    /\ r.pc \in {"li_auth", "cp_auth", "rg_auth"}
    /\ \/ /\ users[r.identity].password = pw
          /\ \E nt \in TokensFor(r.identity) :
                /\ PbIssue(nt)
                /\ req' = [req EXCEPT ![s].pc = done, ![s].pbStatus = "ok", ![s].pbToken = nt,
                                      ![s].pbId = r.identity, ![s].pbRec = RecordOf(r.identity)]
       \/ /\ users[r.identity].password # pw
          /\ req' = [req EXCEPT ![s].pc = done, ![s].pbStatus = "rejected"]
          /\ UNCHANGED <<issued, tokValid>>
       \/ /\ req' = [req EXCEPT ![s].pc = done, ![s].pbStatus = "unreachable"]
          /\ UNCHANGED <<issued, tokValid>>
    /\ UNCHANGED <<priorities, lastSeen, calc, users, nextSalt, redisvars, histvars>>
    /\ Silent

\* (mutation) the delete takes every blacklist entry of the token's user
UnBlacklistUser(bl, token) == {t \in bl : OwnerOf(t) # OwnerOf(token)}

\* the blacklist after a login that was issued this token
UnBlacklist(bl, token) == bl \ {token}

\* (mutation) the role check lets every role through
IsServiceAccountNever(role) == FALSE

\* login_user: service accounts may not use the login endpoint
IsServiceAccount(role) == role = "service"

\* POST /login after the provider's answer
LoginFinish(s) ==
    LET r == req[s]
        info == extract_session_info_from_record(r.pbId, r.pbRec.role)
        dek == get_user_dek(r.password, r.pbRec.salt, r.pbRec.user_wrapped_dek)
        ttl == LoginTTL(info.is_admin, r.keep)
    IN
    /\ r.pc = "li_authed"
    /\ req' = [req EXCEPT ![s] = Idle]
    /\ CASE r.pbStatus = "unreachable" ->
               /\ resp' = Respond(r, 500, NoInfo, NoCookie, TRUE)
               /\ UNCHANGED <<session, blacklist, rlIp, rlId, hadSession, recent>>
         [] r.pbStatus = "rejected" ->
               /\ resp' = Respond(r, 401, NoInfo, NoCookie, TRUE)
               /\ UNCHANGED <<session, blacklist, rlIp, rlId, hadSession, recent>>
         [] r.pbStatus = "ok" /\ IsServiceAccount(r.pbRec.role) ->
               /\ resp' = Respond(r, 403, NoInfo, NoCookie, TRUE)
               /\ UNCHANGED <<session, blacklist, rlIp, rlId, hadSession, recent>>
         [] OTHER ->
               /\ rlIp' = [rlIp EXCEPT ![r.ip] = NoCounter]
               /\ rlId' = [rlId EXCEPT ![r.identity] = NoCounter]
               /\ IF Raises(dek)
                  THEN /\ resp' = Respond(r, 500, NoInfo, NoCookie, TRUE)
                       /\ UNCHANGED <<session, blacklist, hadSession, recent>>
                  ELSE /\ blacklist' = UnBlacklist(blacklist, r.pbToken)
                       /\ recent' = [recent EXCEPT ![r.identity] = <<>>]
                       /\ hadSession' = hadSession \cup {r.pbToken}
                       /\ session' = [session EXCEPT ![r.pbToken] = WithTTL(info, ttl)]
                       /\ resp' = [Respond(r, 200, info,
                                      [auth |-> r.pbToken, dek |-> dek, max_age |-> ttl], TRUE)
                                   EXCEPT !.removed = blacklist \ UnBlacklist(blacklist, r.pbToken)]
    /\ UNCHANGED <<priorities, lastSeen, dekCache, calc, reg, pbvars, revoked>>

\* ---------------------------------------------------------------- time
Aged(c, d) == IF c.n = 0 \/ c.left <= d THEN NoCounter ELSE [n |-> c.n, left |-> c.left - d]

Older(ages, d) == SelectSeq([i \in 1..Len(ages) |-> ages[i] + d], LAMBDA a : a < LoginWindow)

\* d seconds pass: counters whose lifetime ran out are gone
Tick(d) ==
    /\ d > 0
    /\ rlIp' = [i \in IPs |-> Aged(rlIp[i], d)]
    /\ rlId' = [u \in Users |-> Aged(rlId[u], d)]
    /\ recent' = [u \in Users |-> Older(recent[u], d)]
    /\ UNCHANGED <<priorities, lastSeen, dekCache, calc, reg, users, issued, tokValid, nextSalt, session, blacklist, req, hadSession, revoked>>
    /\ Silent

\* ---------------------------------------------------- change-password
\* POST /change-password: the verify_token dependency runs first
ChangePasswordRequest(s, t, current_password, new_password) ==
    /\ req[s] = Idle
    /\ VerifyTokenBegin(s, [Idle EXCEPT !.op = "change_password", !.token = t,
                                        !.password = current_password,
                                        !.new_password = new_password,
                                        !.wasRevoked = (t \in revoked),
                                        !.wasBlacklisted = (t \in blacklist)])
    /\ UNCHANGED <<priorities, lastSeen, calc, pbvars, redisvars, histvars>>

\* GET /api/collections/users/records/<id> with the caller's token
PbGetRecord(s) ==
    LET r == req[s] IN
    /\ r.pc = "cp_get"
    /\ \/ /\ r.token \in tokValid
          /\ req' = [req EXCEPT ![s].pc = "cp_got", ![s].pbStatus = "ok",
                                ![s].pbRec = RecordOf(r.current_session.id)]
       \/ /\ r.token \notin tokValid
          /\ req' = [req EXCEPT ![s].pc = "cp_got", ![s].pbStatus = "rejected"]
       \/ req' = [req EXCEPT ![s].pc = "cp_got", ![s].pbStatus = "unreachable"]
    /\ UNCHANGED <<priorities, lastSeen, calc, pbvars, redisvars, histvars>>
    /\ Silent

\* change_password from the user record to the PATCH: the current password is
\* verified by unwrapping the DEK, then the DEK is wrapped again
ChangePasswordCheck(s) ==
    LET r == req[s] IN
    /\ r.pc = "cp_got"
    /\ IF r.pbStatus # "ok"
       THEN /\ resp' = Respond(r, 500, NoInfo, NoCookie, TRUE)
            /\ req' = [req EXCEPT ![s] = Idle]
            /\ UNCHANGED nextSalt
       ELSE IF Raises(get_user_dek(r.password, r.pbRec.salt, r.pbRec.user_wrapped_dek))
       THEN /\ resp' = Respond(r, 400, NoInfo, NoCookie, TRUE)
            /\ req' = [req EXCEPT ![s] = Idle]
            /\ UNCHANGED nextSalt
       ELSE /\ req' = [req EXCEPT ![s].pc = "cp_patch",
                                  ![s].updated = change_password_data(r.password, r.new_password,
                                        r.pbRec.salt, r.pbRec.user_wrapped_dek,
                                        nextSalt, nextSalt + 1)]
            /\ nextSalt' = nextSalt + 2
            /\ Silent
    /\ UNCHANGED <<priorities, lastSeen, calc, users, issued, tokValid, redisvars, histvars>>

\* PATCH /api/collections/users/records/<id>: the provider checks the token and
\* oldPassword, stores password, salt and user_wrapped_dek, and a new password
\* ends every token it issued to the user before
PbPatchRecord(s) ==
    LET r == req[s]
        id == r.current_session.id
    IN
    /\ r.pc = "cp_patch"
    /\ \/ /\ r.token \in tokValid
          /\ users[id].password = r.password
          /\ users' = [users EXCEPT ![id].password = r.new_password,
                                    ![id].salt = r.updated.salt,
                                    ![id].user_wrapped_dek = r.updated.user_wrapped_dek]
          /\ tokValid' = {t \in tokValid : OwnerOf(t) # id}
          /\ req' = [req EXCEPT ![s].pc = "cp_patched", ![s].pbStatus = "ok"]
       \/ /\ r.token \notin tokValid \/ users[id].password # r.password
          /\ req' = [req EXCEPT ![s].pc = "cp_patched", ![s].pbStatus = "rejected"]
          /\ UNCHANGED <<users, tokValid>>
       \/ /\ req' = [req EXCEPT ![s].pc = "cp_patched", ![s].pbStatus = "unreachable"]
          /\ UNCHANGED <<users, tokValid>>
    /\ UNCHANGED <<priorities, lastSeen, calc, issued, nextSalt, redisvars, histvars>>
    /\ Silent

\* change_password after the PATCH: authenticate with the new password
ChangePasswordReauth(s) ==
    LET r == req[s] IN
    /\ r.pc = "cp_patched"
    /\ IF r.pbStatus # "ok"
       THEN /\ resp' = Respond(r, 500, NoInfo, NoCookie, TRUE)
            /\ req' = [req EXCEPT ![s] = Idle]
       ELSE /\ req' = [req EXCEPT ![s].pc = "cp_auth"]
            /\ Silent
    /\ UNCHANGED <<priorities, lastSeen, calc, pbvars, redisvars, histvars>>

\* (mutation) only the caller's own entry is deleted
InvalidateOwnSession(sess, token, id) ==
    [t \in Tokens |-> IF t = token THEN NoSession ELSE sess[t]]

\* the scan over session:*: every entry of the user goes, the caller's own last
InvalidateSessions(sess, token, id) ==
    [t \in Tokens |-> IF t = token \/ sess[t].id = id THEN NoSession ELSE sess[t]]

\* change_password after the re-authentication: invalidate, then one new session
ChangePasswordFinish(s) ==
    LET r == req[s]
        cs == r.current_session
        ttl == ChangePasswordTTL(cs.is_admin)
        new_dek == get_user_dek(r.new_password, r.updated.salt, r.updated.user_wrapped_dek)
    IN
    /\ r.pc = "cp_authed"
    /\ req' = [req EXCEPT ![s] = Idle]
    /\ IF r.pbStatus # "ok"
       THEN /\ resp' = Respond(r, 500, NoInfo, NoCookie, TRUE)
            /\ UNCHANGED <<session, hadSession, revoked>>
       ELSE /\ session' = [InvalidateSessions(session, r.token, cs.id)
                                EXCEPT ![r.pbToken] = WithTTL(cs, ttl)]
            /\ hadSession' = hadSession \cup {r.pbToken}
            /\ revoked' = revoked \cup ({t \in hadSession : OwnerOf(t) = cs.id} \ {r.pbToken})
            /\ resp' = Respond(r, 200, cs,
                          [auth |-> r.pbToken, dek |-> new_dek, max_age |-> ttl], TRUE)
    /\ UNCHANGED <<priorities, lastSeen, dekCache, calc, reg, pbvars, blacklist, rlIp, rlId, recent>>

\* -------------------------------------------------------- registration
\* verify_magic_word, register_user_qr: ten wrong magic words block the address
MagicLimited(n) == n >= MagicLimit

\* POST /verify-magic-word: a right magic word buys a one-time registration token
verify_magic_word(valid) ==
    LET r == [Idle EXCEPT !.op = "magic"] IN
    /\ IF MagicLimited(reg.magic)
       THEN /\ resp' = Respond(r, 429, NoInfo, NoCookie, FALSE)
            /\ UNCHANGED reg
       ELSE IF ~valid
       THEN /\ reg' = [reg EXCEPT !.magic = @ + 1]
            /\ resp' = Respond(r, 403, NoInfo, NoCookie, TRUE)
       ELSE /\ reg' = [reg EXCEPT !.magic = 0, !.tokens = @ + 1]
            /\ resp' = Respond(r, 200, NoInfo, NoCookie, TRUE)
    /\ UNCHANGED <<priorities, lastSeen, dekCache, calc, pbvars, session, blacklist, rlIp, rlId, req, histvars>>

\* create_user_encryption_data: a fresh DEK wrapped under the password and a fresh salt
\* (mutation) the admin gets another key than the user
create_user_encryption_data_two_deks(identity, password, salt, nonce, seed) ==
    [salt |-> b64encode(salt),
     user_wrapped_dek |-> WrapDek(DekOf(identity), derive_key_from_password(password, salt), nonce),
     admin_wrapped_dek |-> wrap_dek_with_admin_key(KeyBits(2 ^ DekLen - 1), AdminPublicKey, seed)]

create_user_encryption_data(identity, password, salt, nonce, seed) ==
    [salt |-> b64encode(salt),
     user_wrapped_dek |-> WrapDek(DekOf(identity), derive_key_from_password(password, salt), nonce),
     admin_wrapped_dek |-> wrap_dek_with_admin_key(DekOf(identity), AdminPublicKey, seed)]

\* the fields of the record to create: the encryption data and the encrypted name
NewRecordFields(identity, password, salt, nonce, seed, fields_nonce) ==
    LET encryption_data == create_user_encryption_data(identity, password, salt, nonce, seed) IN
    [salt |-> encryption_data.salt,
     user_wrapped_dek |-> encryption_data.user_wrapped_dek,
     admin_wrapped_dek |-> encryption_data.admin_wrapped_dek,
     encrypted_fields |-> encrypt_fields([name |-> [str |-> identity]], DekOf(identity),
                                         fields_nonce)]

\* the registration is under way: lock the identity, prepare the record to create
BeginRegistration(s, r) ==
    IF r.identity \in reg.lock
    THEN /\ resp' = Respond(r, 429, NoInfo, NoCookie, FALSE)
         /\ UNCHANGED <<req, nextSalt>>
    ELSE /\ req' = [req EXCEPT ![s] =
                      [r EXCEPT !.pc = "rg_create",
                                !.updated = NewRecordFields(r.identity, r.password, nextSalt,
                                                            nextSalt + 1, nextSalt + 2,
                                                            nextSalt + 3)]]
         /\ nextSalt' = nextSalt + 4
         /\ Silent

\* POST /register up to the first call of the provider
register_user(s, identity, password, keep, has_token) ==
    LET r == [Idle EXCEPT !.op = "register", !.identity = identity, !.password = password,
                          !.keep = keep]
    IN
    /\ req[s] = Idle
    /\ has_token => reg.tokens > 0
    /\ IF ~has_token
       THEN /\ resp' = Respond(r, 403, NoInfo, NoCookie, FALSE)
            /\ UNCHANGED <<reg, req, nextSalt>>
       ELSE /\ reg' = [reg EXCEPT !.tokens = @ - 1,
                                  !.lock = @ \cup {identity}]
            /\ BeginRegistration(s, r)
    /\ UNCHANGED <<priorities, lastSeen, dekCache, calc, users, issued, tokValid, session, blacklist, rlIp, rlId, histvars>>

\* POST /register-qr up to the first call of the provider that writes
register_user_qr(s, identity, password, keep, valid) ==
    LET r == [Idle EXCEPT !.op = "register_qr", !.identity = identity, !.password = password,
                          !.keep = keep]
    IN
    /\ req[s] = Idle
    /\ IF MagicLimited(reg.magic)
       THEN /\ resp' = Respond(r, 429, NoInfo, NoCookie, FALSE)
            /\ UNCHANGED <<reg, req, nextSalt>>
       ELSE IF ~valid
       THEN /\ reg' = [reg EXCEPT !.magic = @ + 1]
            /\ resp' = Respond(r, 403, NoInfo, NoCookie, TRUE)
            /\ UNCHANGED <<req, nextSalt>>
       ELSE /\ reg' = [reg EXCEPT !.magic = 0, !.lock = @ \cup {identity}]
            /\ BeginRegistration(s, r)
    /\ UNCHANGED <<priorities, lastSeen, dekCache, calc, users, issued, tokValid, session, blacklist, rlIp, rlId, histvars>>

\* POST /api/collections/users/records as the service account, role "user"
PbCreateUser(s) ==
    LET r == req[s] IN
    /\ r.pc = "rg_create"
    /\ \/ /\ users[r.identity].password = NoPassword
          /\ users' = [users EXCEPT ![r.identity] =
                         [password |-> r.password, salt |-> r.updated.salt, role |-> "user",
                          user_wrapped_dek |-> r.updated.user_wrapped_dek,
                          admin_wrapped_dek |-> r.updated.admin_wrapped_dek,
                          encrypted_fields |-> r.updated.encrypted_fields]]
          /\ req' = [req EXCEPT ![s].pc = "rg_created", ![s].pbStatus = "ok"]
       \/ /\ users[r.identity].password # NoPassword
          /\ req' = [req EXCEPT ![s].pc = "rg_created", ![s].pbStatus = "rejected"]
          /\ UNCHANGED users
       \/ /\ req' = [req EXCEPT ![s].pc = "rg_created", ![s].pbStatus = "unreachable"]
          /\ UNCHANGED users
    /\ UNCHANGED <<priorities, lastSeen, calc, issued, tokValid, nextSalt, redisvars, histvars>>
    /\ Silent

\* finally: the lock of the identity goes
Unlock(identity) == reg' = [reg EXCEPT !.lock = @ \ {identity}]

\* the registration after the record was created, or was not
RegisterCreated(s) ==
    LET r == req[s] IN
    /\ r.pc = "rg_created"
    /\ IF r.pbStatus = "ok"
       THEN /\ req' = [req EXCEPT ![s].pc = "rg_auth"]
            /\ Silent
            /\ UNCHANGED reg
       ELSE /\ req' = [req EXCEPT ![s] = Idle]
            /\ resp' = Respond(r, IF r.pbStatus = "rejected" THEN 400 ELSE 500,
                               NoInfo, NoCookie, TRUE)
            /\ Unlock(r.identity)
    /\ UNCHANGED <<priorities, lastSeen, dekCache, calc, pbvars, session, blacklist, rlIp, rlId, histvars>>

\* register_user, register_user_qr: TTL by keep_logged_in
RegisterTTL(keep_logged_in) == IF keep_logged_in THEN PersistentTTL ELSE SessionTTL

\* the registration after the automatic login
RegisterFinish(s) ==
    LET r == req[s]
        info == extract_session_info_from_record(r.pbId, r.pbRec.role)
        dek == get_user_dek(r.password, r.updated.salt, r.updated.user_wrapped_dek)
        ttl == RegisterTTL(r.keep)
    IN
    /\ r.pc = "rg_authed"
    /\ req' = [req EXCEPT ![s] = Idle]
    /\ Unlock(r.identity)
    /\ IF r.pbStatus # "ok"
       THEN /\ resp' = Respond(r, 500, NoInfo, NoCookie, TRUE)
            /\ UNCHANGED <<session, hadSession>>
       ELSE /\ session' = [session EXCEPT ![r.pbToken] = WithTTL(info, ttl)]
            /\ hadSession' = hadSession \cup {r.pbToken}
            /\ resp' = Respond(r, 200, info,
                               [auth |-> r.pbToken, dek |-> dek, max_age |-> ttl], TRUE)
    /\ UNCHANGED <<priorities, lastSeen, dekCache, calc, pbvars, blacklist, rlIp, rlId, revoked, recent>>

\* PATCH /admin/super/users/{user_id}/promote: a super admin makes a user of an
\* institution an institution admin. The handler reads the record, refuses an
\* admin, and patches the role; no other step here takes the admin role away,
\* so the read and the patch are one step.
promote_user_to_institution_admin(u) ==
    /\ users[u].password # NoPassword
    /\ users[u].role \notin {"institution_admin", "super_admin", "service"}
    /\ users' = [users EXCEPT ![u].role = "institution_admin"]
    /\ UNCHANGED <<priorities, lastSeen, calc, issued, tokValid, nextSalt, redisvars, req, histvars>>
    /\ Silent

\* ------------------------------------------------- data at rest
\* the bodies of the handlers behind verify_token that decrypt stored data
\* with the DEK of the cookie; the provider answers their reads and writes
Weeks == {[list |-> "first choice"], [list |-> "second choice"]}
NoWeeks == [list |-> ""]

DataResponse(op, status, identity, dek, found, body) ==
    [op |-> op, status |-> status, identity |-> identity, dek |-> dek, found |-> found,
     body |-> body]

\* GET /account/info: a name that does not decrypt is answered as ""
account_info(u, dek) ==
    LET encrypted_fields == users[u].encrypted_fields
        decrypted == decrypt_fields(encrypted_fields, dek)
        decrypted_fields == IF Raises(decrypted) THEN [name |-> [str |-> ""]] ELSE decrypted
    IN
    /\ resp' = DataResponse("account_info", 200, u, dek, encrypted_fields,
                            [username |-> u, name |-> decrypted_fields.name])
    /\ UNCHANGED <<priorities, lastSeen, calc, pbvars, redisvars, req, histvars>>

\* GET /priorities/{month}: InvalidTag is answered 500, as is every other
\* exception of the decryption
get_priority(u, dek) ==
    LET found == priorities[u]
        decrypted_weeks == decrypt_fields(found, dek)
    IN
    /\ resp' = IF found = NoRecord
               THEN DataResponse("get_priority", 200, u, dek, found, [weeks |-> NoWeeks])
               ELSE IF Raises(decrypted_weeks)
               THEN DataResponse("get_priority", 500, u, dek, found, [weeks |-> NoWeeks])
               ELSE DataResponse("get_priority", 200, u, dek, found,
                                 [weeks |-> decrypted_weeks.weeks])
    /\ UNCHANGED <<priorities, lastSeen, calc, pbvars, redisvars, req, histvars>>

\* PUT /priorities/{month}: a running save answers 429; the weeks stored
\* before are kept if the week has started and refuse a change with 422;
\* stored weeks that do not decrypt count as none, and the record is
\* written over
save_priority(u, dek, weeks, saving, started) ==
    LET existing == priorities[u]
        decrypted_data == decrypt_fields(existing, dek)
        existing_weeks_data == IF existing = NoRecord \/ Raises(decrypted_data)
                               THEN NoWeeks ELSE decrypted_data.weeks
        locked == started /\ existing_weeks_data # NoWeeks
    IN
    IF saving
    THEN /\ resp' = DataResponse("save_priority", 429, u, dek, NoRecord, [weeks |-> NoWeeks])
         /\ UNCHANGED <<priorities, nextSalt>>
    ELSE IF locked /\ existing_weeks_data # weeks
    THEN /\ resp' = DataResponse("save_priority", 422, u, dek, existing, [weeks |-> NoWeeks])
         /\ UNCHANGED <<priorities, nextSalt>>
    ELSE LET final_weeks == IF locked THEN existing_weeks_data ELSE weeks IN
         /\ priorities' = [priorities EXCEPT
                              ![u] = encrypt_fields([weeks |-> final_weeks], dek, nextSalt)]
         /\ nextSalt' = nextSalt + 1
         /\ resp' = DataResponse("save_priority", 200, u, dek, existing,
                                 [weeks |-> final_weeks])

\* ------------------------------------------------ EncryptionManager calls
\* a call and what it returned or raised; the blobs made so far and the
\* parts of the last split stay at hand
Call(op, args, out) ==
    [op |-> op, args |-> args, out |-> out, blobs |-> calc.blobs, split |-> calc.split]

SecurityTiers == {"high", "balanced", "convenience"}
AllKeys == {KeyBits(n) : n \in 0..(2 ^ DekLen - 1)}

\* the tier the callers of get_dek_from_request pass for a user
SecurityTierOf(u) == IF u = "u1" THEN "balanced" ELSE "high"
CacheUsers == {"u1", "adm"}
CacheTokens == {<<"u1", 1>>}

Plaintexts == {[text |-> ""], [text |-> "Sensitive user information"]}
FieldMaps == {[name |-> [str |-> "John Doe"]],
              [name |-> [str |-> "Test"], count |-> [num |-> 42]]}
CryptoKeys == {KeyBits(1), KeyBits(2)}
NotBase64 == [text |-> "not-valid-base64!!!"]

\* a blob with one byte changed: in the nonce, in the ciphertext or in the tag
Tampered(blob) ==
    LET encrypted == b64decode(blob) IN
    {b64encode([encrypted EXCEPT !.nonce = n]) : n \in (0..MaxDraws) \ {encrypted.nonce}}
      \cup {b64encode([encrypted EXCEPT !.ct = [@ EXCEPT !.data = [flipped |-> @]]]),
            b64encode([encrypted EXCEPT !.tag = [flipped |-> @]])}
      \cup {b64encode([encrypted EXCEPT !.ct = b64decode(other.out).ct]) :
               other \in {e \in calc.blobs : e.out # blob}}
      \cup {b64encode([encrypted EXCEPT !.tag = b64decode(other.out).tag]) :
               other \in {e \in calc.blobs : e.out # blob}}

\* encrypt_data(data, key); the caller keeps what it encrypted and the blob
EncryptData(data, key) ==
    LET out == encrypt_data(data, key, nextSalt) IN
    /\ nextSalt' = nextSalt + 1
    /\ calc' = [Call("encrypt_data", [data |-> data, key |-> key], out)
                   EXCEPT !.blobs = @ \cup {[op |-> "encrypt_data", data |-> data,
                                              key |-> key, out |-> out]}]
    /\ UNCHANGED <<priorities, lastSeen, users, issued, tokValid, redisvars, req, resp, histvars>>

\* decrypt_data(encrypted_data, key)
DecryptData(encrypted_data, key) ==
    /\ calc' = Call("decrypt_data", [encrypted_data |-> encrypted_data, key |-> key],
                    decrypt_data(encrypted_data, key))
    /\ UNCHANGED <<priorities, lastSeen, pbvars, redisvars, req, resp, histvars>>

\* encrypt_fields(fields, dek)
EncryptFields(fields, dek) ==
    LET out == encrypt_fields(fields, dek, nextSalt) IN
    /\ nextSalt' = nextSalt + 1
    /\ calc' = [Call("encrypt_fields", [fields |-> fields, dek |-> dek], out)
                   EXCEPT !.blobs = @ \cup {[op |-> "encrypt_fields", data |-> fields,
                                              key |-> dek, out |-> out]}]
    /\ UNCHANGED <<priorities, lastSeen, users, issued, tokValid, redisvars, req, resp, histvars>>

\* decrypt_fields(encrypted_json, dek)
DecryptFields(encrypted_json, dek) ==
    /\ calc' = Call("decrypt_fields", [encrypted_json |-> encrypted_json, dek |-> dek],
                    decrypt_fields(encrypted_json, dek))
    /\ UNCHANGED <<priorities, lastSeen, pbvars, redisvars, req, resp, histvars>>

\* what redis holds under dek:<user_id>:<token>
DekEntries(user_id, token) == {e \in dekCache : e.user_id = user_id /\ e.token = token}

\* split_dek(dek)
SplitDek(dek, server_part_bytes) ==
    /\ calc' = [Call("split_dek", [dek |-> dek], split_dek(dek, server_part_bytes))
                   EXCEPT !.split = [dek |-> dek,
                                     server_part |-> split_dek(dek, server_part_bytes).server_part,
                                     client_part |-> split_dek(dek, server_part_bytes).client_part]]
    /\ UNCHANGED <<priorities, lastSeen, pbvars, redisvars, req, resp, histvars>>

\* reconstruct_dek(server_part, client_part)
ReconstructDek(server_part, client_part) ==
    /\ calc' = Call("reconstruct_dek", [server_part |-> server_part, client_part |-> client_part],
                    reconstruct_dek(server_part, client_part))
    /\ UNCHANGED <<priorities, lastSeen, pbvars, redisvars, req, resp, histvars>>

\* the server part of the last split is encrypted and cached for 30 minutes
\* (test_get_dek_balanced_mode_with_cache)
CacheServerPart(user_id, token) ==
    LET encrypted_server_part == encrypt_dek_part(calc.split.server_part, nextSalt) IN
    /\ calc.split # NoSplit
    /\ nextSalt' = nextSalt + 1
    /\ dekCache' = (dekCache \ DekEntries(user_id, token)) \cup
                      {[user_id |-> user_id, token |-> token,
                        encrypted_server_part |-> encrypted_server_part, left |-> DekCacheTTL]}
    /\ calc' = Call("encrypt_dek_part", [dek_part |-> calc.split.server_part], encrypted_server_part)
    /\ UNCHANGED <<priorities, lastSeen, users, issued, tokValid, session, blacklist, rlIp, rlId, reg, req, resp, histvars>>

\* (mutation) a hit returns the DEK and leaves the entry with the time it had
get_dek_from_request_no_refresh(dek_or_client_part, user_id, token, security_tier) ==
    LET cached == DekEntries(user_id, token)
        out == DekFromRequest(dek_or_client_part, security_tier, cached)
    IN
    /\ calc' = Call("get_dek_from_request",
                    [dek_or_client_part |-> dek_or_client_part, user_id |-> user_id,
                     token |-> token, security_tier |-> security_tier], out)
    /\ UNCHANGED <<priorities, lastSeen, pbvars, redisvars, req, resp, histvars>>

\* get_dek_from_request: a hit of the balanced tier writes the entry again for 30 minutes
get_dek_from_request(dek_or_client_part, user_id, token, security_tier) ==
    LET cached == DekEntries(user_id, token)
        out == DekFromRequest(dek_or_client_part, security_tier, cached)
    IN
    /\ calc' = Call("get_dek_from_request",
                    [dek_or_client_part |-> dek_or_client_part, user_id |-> user_id,
                     token |-> token, security_tier |-> security_tier], out)
    /\ dekCache' = IF security_tier = "balanced" /\ ~Raises(out)
                   THEN (dekCache \ cached) \cup {[e EXCEPT !.left = DekCacheTTL] : e \in cached}
                   ELSE dekCache
    /\ UNCHANGED <<priorities, lastSeen, pbvars, session, blacklist, rlIp, rlId, reg, req, resp, histvars>>

\* d seconds pass for the cached parts: what ran out is gone
DekTick(d) ==
    /\ d > 0 /\ dekCache # {}
    /\ dekCache' = {[e EXCEPT !.left = @ - d] : e \in {c \in dekCache : c.left > d}}
    /\ calc' = Call("none", NoArgs, NoDek)
    /\ UNCHANGED <<priorities, lastSeen, pbvars, session, blacklist, rlIp, rlId, reg, req, resp, histvars>>

\* ------------------------------------------------------ specifications
Quiet == \A s \in Slots : req[s] = Idle

\* the requests clients send
StartVerify(slots) == \E s \in slots, t \in Presentable : Ready /\ VerifyRequest(s, t)
StartLogin(slots, actors, keeps, ips, burst) ==
    \E s \in slots, u \in actors, p \in Passwords, k \in keeps, ip \in ips :
        /\ Ready
        /\ rlId[u].n < burst /\ rlIp[ip].n < burst
        /\ login_user(s, u, p, k, ip)
StartChangePassword(slots) ==
    \E s \in slots, t \in Presentable, p \in Passwords, np \in Passwords :
        Ready /\ nextSalt <= MaxSalts /\ ChangePasswordRequest(s, t, p, np)
StartChangeAgain(slots) ==
    \E s \in slots, t \in Presentable, p \in Passwords, np \in Passwords :
        Ready /\ nextSalt <= 2 * MaxDraws /\ ChangePasswordRequest(s, t, p, np)
Logout == \E t \in Presentable : Ready /\ logout_user(t)

\* the provider answers a call
AuthRefreshStep == \E s \in Slots : Ready /\ PbAuthRefresh(s)
AuthPasswordStep == \E s \in Slots : Ready /\ PbAuthWithPassword(s)
GetRecordStep == \E s \in Slots : Ready /\ PbGetRecord(s)
PatchRecordStep == \E s \in Slots : Ready /\ PbPatchRecord(s)

\* a handler resumes with the answer
VerifyResumeStep == \E s \in Slots : Ready /\ VerifyTokenResume(s)
LoginFinishStep == \E s \in Slots : Ready /\ LoginFinish(s)
ChangeCheckStep == \E s \in Slots : Ready /\ ChangePasswordCheck(s)
ChangeReauthStep == \E s \in Slots : Ready /\ ChangePasswordReauth(s)
ChangeFinishStep == \E s \in Slots : Ready /\ ChangePasswordFinish(s)

\* the cache drops an entry, time passes
SessionExpires == \E t \in Tokens : Ready /\ ExpireSession(t)
BlacklistExpires == \E t \in Tokens : Ready /\ ExpireBlacklist(t)
Time(ds) == \E d \in ds : Ready /\ Tick(d)

\* the same while no request is in flight
LogoutAlone == Quiet /\ Logout
SessionExpiresAlone == Quiet /\ SessionExpires
BlacklistExpiresAlone == Quiet /\ BlacklistExpires
TimeAlone(ds) == Quiet /\ Time(ds)

\* registration and promotion
MagicWord == \E valid \in BOOLEAN :
    Ready /\ (valid => reg.tokens < MaxRegTokens) /\ (~valid => reg.magic < MaxBurst)
          /\ verify_magic_word(valid)
StartRegister(slots, actors) ==
    \E s \in slots, u \in actors, k \in BOOLEAN, has_token \in BOOLEAN :
        Ready /\ nextSalt <= MaxSalts /\ register_user(s, u, "p1", k, has_token)
StartRegisterQr(slots, actors) ==
    \E s \in slots, u \in actors, k \in BOOLEAN, valid \in BOOLEAN :
        Ready /\ nextSalt <= MaxSalts /\ (~valid => reg.magic < MaxBurst)
              /\ register_user_qr(s, u, "p1", k, valid)
CreateUserStep == \E s \in Slots : Ready /\ PbCreateUser(s)
RegisterCreatedStep == \E s \in Slots : Ready /\ RegisterCreated(s)
RegisterFinishStep == \E s \in Slots : Ready /\ RegisterFinish(s)
Promote == \E u \in Users : Ready /\ promote_user_to_institution_admin(u)

\* requests for data at rest, with the key of the user or another in the cookie
AccountInfo == \E dek \in AllKeys : Ready /\ account_info("u1", dek)
GetPriority == \E dek \in AllKeys : Ready /\ get_priority("u1", dek)
SavePriority == \E dek \in AllKeys, weeks \in Weeks, saving \in BOOLEAN, started \in BOOLEAN :
    /\ Ready /\ nextSalt <= MaxDraws
    /\ save_priority("u1", dek, weeks, saving, started)
    /\ UNCHANGED <<lastSeen, calc, users, issued, tokValid, redisvars, req, histvars>>

\* calls of the encryption functions
Encrypt == \E data \in Plaintexts, key \in CryptoKeys :
    nextSalt <= MaxDraws /\ EncryptData(data, key)
Decrypt == \E e \in calc.blobs, key \in CryptoKeys : DecryptData(e.out, key)
DecryptTampered == \E e \in calc.blobs, key \in CryptoKeys :
    \E blob \in Tampered(e.out) \cup {NotBase64} : DecryptData(blob, key)
EncryptMap == \E fields \in FieldMaps, dek \in CryptoKeys :
    nextSalt <= MaxDraws /\ EncryptFields(fields, dek)
DecryptMap == \E e \in calc.blobs, dek \in CryptoKeys : DecryptFields(e.out, dek)

\* calls of the split-DEK functions
Split == \E u \in CacheUsers, server_part_bytes \in AllKeys :
    SplitDek(DekOf(u), server_part_bytes)
Reconstruct == \E s \in AllKeys :
    calc.split # NoSplit /\ ReconstructDek(b64encode(s), calc.split.client_part)
CachePart == \E u \in CacheUsers, t \in CacheTokens :
    nextSalt <= MaxDraws /\ CacheServerPart(u, t)
GetDek == \E c \in AllKeys, u \in CacheUsers, t \in CacheTokens, tier \in SecurityTiers :
    get_dek_from_request(b64encode(c), u, t, tier)
DekTime == DekTick(DekCacheTTL \div 2)

\* the client takes the response
Receive ==
    /\ resp # NoResp
    /\ resp' = NoResp
    /\ UNCHANGED <<priorities, lastSeen, calc, pbvars, redisvars, req, histvars>>

\* requests of one user, interleaved at their awaits: any request in slot 1,
\* verify_token calls in the others
Init == InitWith([u \in Users |-> IF u = "u1" THEN MaxTokens - 1 ELSE 0])

Next ==
    \/ StartVerify(Slots)
    \/ StartLogin({1}, {"u1"}, {FALSE}, {"ip1"}, MaxBurst)
    \/ StartChangePassword({1})
    \/ Logout
    \/ AuthRefreshStep
    \/ AuthPasswordStep
    \/ GetRecordStep
    \/ PatchRecordStep
    \/ VerifyResumeStep
    \/ LoginFinishStep
    \/ ChangeCheckStep
    \/ ChangeReauthStep
    \/ ChangeFinishStep
    \/ SessionExpires
    \/ BlacklistExpires
    \/ Time({LoginWindow})
    \/ Receive

Spec == Init /\ [][Next]_vars

\* requests of two users, one at a time
InitSeq == InitWith([u \in Users |-> IF u = "u1" THEN MaxTokens
                                     ELSE IF u = "adm" THEN MaxTokens - 2 ELSE 0])

NextSeq ==
    \/ StartVerify({1})
    \/ StartLogin({1}, {"u1", "adm"}, BOOLEAN, {"ip1"}, MaxBurst)
    \/ StartChangePassword({1})
    \/ LogoutAlone
    \/ AuthRefreshStep
    \/ AuthPasswordStep
    \/ GetRecordStep
    \/ PatchRecordStep
    \/ VerifyResumeStep
    \/ LoginFinishStep
    \/ ChangeCheckStep
    \/ ChangeReauthStep
    \/ ChangeFinishStep
    \/ SessionExpiresAlone
    \/ BlacklistExpiresAlone
    \/ TimeAlone({LoginWindow})
    \/ Receive

SpecSeq == InitSeq /\ [][NextSeq]_vars

\* logins with the service account's credentials, and its tokens presented
InitService == InitWith([u \in Users |-> IF u = "svc" THEN MaxTokens - 1 ELSE 0])

NextService ==
    \/ StartVerify({1})
    \/ StartLogin({1}, {"svc"}, BOOLEAN, {"ip1"}, MaxBurst)
    \/ LogoutAlone
    \/ AuthRefreshStep
    \/ AuthPasswordStep
    \/ VerifyResumeStep
    \/ LoginFinishStep
    \/ SessionExpiresAlone
    \/ TimeAlone({LoginWindow})
    \/ Receive

SpecService == InitService /\ [][NextService]_vars

\* logins of one identity from two addresses, one at a time, as time passes
InitRate == InitWith([u \in Users |-> IF u = "u1" THEN 1 ELSE 0])

NextRate ==
    \/ StartLogin({1}, {"u1"}, {FALSE}, IPs, LoginLimit + 1)
    \/ AuthPasswordStep
    \/ LoginFinishStep
    \/ TimeAlone({LoginWindow \div 3, LoginWindow})
    \/ Receive

SpecRate == InitRate /\ [][NextRate]_vars

\* a new identity registers while a super admin promotes users; the sessions
\* of the new identity and of an old one are written by every operation
InitRegister == InitWith([u \in Users |-> IF u = "new" THEN MaxTokens - 1
                                          ELSE IF u = "u1" THEN MaxTokens - 2 ELSE 0])

NextRegister ==
    \/ MagicWord
    \/ StartRegister({1}, {"new", "u1"})
    \/ StartRegisterQr({1}, {"new", "u1"})
    \/ CreateUserStep
    \/ RegisterCreatedStep
    \/ RegisterFinishStep
    \/ Promote
    \/ StartVerify({1})
    \/ StartLogin({1}, {"u1"}, BOOLEAN, {"ip1"}, MaxBurst)
    \/ AuthRefreshStep
    \/ AuthPasswordStep
    \/ VerifyResumeStep
    \/ LoginFinishStep
    \/ SessionExpiresAlone
    \/ Receive

SpecRegister == InitRegister /\ [][NextRegister]_vars

\* the life of an account, one request at a time: registration, logins and
\* one password change after the other
InitAccount == InitWith([u \in Users |-> IF u = "u1" THEN MaxTokens
                                         ELSE IF u = "new" THEN MaxTokens - 1 ELSE 0])

NextAccount ==
    \/ StartRegisterQr({1}, {"new"})
    \/ StartLogin({1}, {"u1", "new"}, {FALSE}, {"ip1"}, MaxBurst)
    \/ StartChangeAgain({1})
    \/ CreateUserStep
    \/ RegisterCreatedStep
    \/ RegisterFinishStep
    \/ AuthRefreshStep
    \/ AuthPasswordStep
    \/ GetRecordStep
    \/ PatchRecordStep
    \/ VerifyResumeStep
    \/ LoginFinishStep
    \/ ChangeCheckStep
    \/ ChangeReauthStep
    \/ ChangeFinishStep
    \/ Receive

SpecAccount == InitAccount /\ [][NextAccount]_vars

\* everything that writes to the record store or to the DEK cache:
\* registration, password changes, logins, cached server parts
InitStore == InitWith([u \in Users |-> IF u = "new" THEN MaxTokens ELSE 0])

NextStore ==
    \/ StartRegisterQr({1}, {"new"})
    \/ StartLogin({1}, {"new"}, {FALSE}, {"ip1"}, MaxBurst)
    \/ StartChangeAgain({1})
    \/ Split
    \/ CachePart
    \/ CreateUserStep
    \/ RegisterCreatedStep
    \/ RegisterFinishStep
    \/ AuthRefreshStep
    \/ AuthPasswordStep
    \/ GetRecordStep
    \/ PatchRecordStep
    \/ VerifyResumeStep
    \/ LoginFinishStep
    \/ ChangeCheckStep
    \/ ChangeReauthStep
    \/ ChangeFinishStep
    \/ Receive

SpecStore == InitStore /\ [][NextStore]_vars

\* the stored data of one user read and written, also with a wrong key
InitData == InitWith([u \in Users |-> 0])

NextData ==
    \/ AccountInfo
    \/ GetPriority
    \/ SavePriority
    \/ Receive

SpecData == InitData /\ [][NextData]_vars

\* the encryption functions called in any order, on blobs made before and
\* on changed ones
InitCrypto == InitWith([u \in Users |-> 0])

NextCrypto ==
    \/ Encrypt
    \/ Decrypt
    \/ DecryptTampered
    \/ EncryptMap
    \/ DecryptMap

SpecCrypto == InitCrypto /\ [][NextCrypto]_vars

\* the split-DEK functions called in any order on any keys
InitSplit == InitWith([u \in Users |-> 0])

NextSplit ==
    \/ Split
    \/ Reconstruct
    \/ CachePart
    \/ GetDek
    \/ DekTime

SpecSplit == InitSplit /\ [][NextSplit]_vars

\* ---------------------------------------------------------------- claims
\* C1: after a successful change_password of user U, a token of U that had a
\* session before the change is never accepted by verify_token again.
C1_OldTokensRejected ==
    (resp.op = "verify" /\ resp.wasRevoked) => (resp.status # 200 /\ resp.info = NoInfo)

C3_OnlyExpiryRemoves ==
    [][\A t \in blacklist : t \in blacklist' \/ ExpireBlacklist(t)]_vars

\* C3 amended: a blacklist entry goes only when its own TTL runs out or when a
\* successful login was issued that same token.
C3_OnlyExpiryOrLoginRemoves ==
    [][\A t \in blacklist :
          \/ t \in blacklist'
          \/ ExpireBlacklist(t)
          \/ (resp'.op = "login" /\ resp'.status = 200 /\ resp'.cookie.auth = t)]_vars

\* a login was issued a logged-out token and took its blacklist entry away
C3_Witness ==
    /\ resp.op = "login" /\ resp.status = 200
    /\ resp.removed = {resp.cookie.auth}
    /\ resp.cookie.auth \notin blacklist

\* C4: while change_password runs its body with a wrong current password it
\* changes neither the provider's records and tokens nor the session cache nor
\* the blacklist, and it ends with 400; the presented token is still backed by
\* its cache entry or by the provider, and the user's password is still the
\* original one.
C4_WrongPasswordChangesNothing ==
    [][\A s \in Slots :
          LET r == req[s] IN
          (/\ r.op = "change_password" /\ r.pc \in {"cp_get", "cp_got"}
           /\ req'[s] # r
           /\ users[r.current_session.id].password # r.password)
          => /\ UNCHANGED <<users, issued, tokValid, nextSalt, session, blacklist>>
             /\ (r.pc = "cp_got" /\ r.pbStatus = "ok")
                  => /\ resp'.op = "change_password" /\ resp'.status = 400
                     /\ req'[s] = Idle
                     /\ (session'[r.token] # NoSession \/ r.token \in tokValid')
                     /\ users'[r.current_session.id].password # r.password]_vars

\* a change_password with a wrong current password was answered 400
C4_Witness ==
    /\ resp.op = "change_password" /\ resp.status = 400
    /\ users[resp.identity].password # resp.password
    /\ session[resp.token] # NoSession

\* C5: when change_password fails after its current-password check, the
\* password the user had is still the one the provider accepts.
C5_OldCredentialsKept ==
    (resp.op = "change_password" /\ resp.status # 200 /\ resp.at \in {"cp_patched", "cp_authed"})
        => users[resp.identity].password = resp.password

C7_RefreshFailures ==
    [][(resp'.at = "vt_resume")
         => /\ (resp'.status = 401) <=> (resp'.pbStatus = "rejected")
            /\ (resp'.pbStatus = "unreachable") => (resp'.status = 503 /\ resp'.info = NoInfo)
            /\ (resp'.pbStatus # "ok") => session' = session]_vars

\* a token the provider would accept got 503 because the provider was unreachable
C7_Witness ==
    /\ resp.op = "verify" /\ resp.at = "vt_resume" /\ resp.pbStatus = "unreachable"
    /\ resp.status = 503
    /\ resp.token \in tokValid

\* C8: a login of a service-role identity never succeeds, writes no session
\* entry and sets no cookie, and is answered 403 when the provider accepts the
\* credentials; verify_token returns the identity of a service-role token that
\* the provider confirms.
C8_ServiceLoginForbidden ==
    [][/\ (resp'.op = "login" /\ users[resp'.identity].role = "service")
            => /\ resp'.status # 200
               /\ resp'.cookie = NoCookie
               /\ session' = session
               /\ (resp'.pbStatus = "ok") => (resp'.status = 403)
       /\ (/\ resp'.op = "verify" /\ resp'.at = "vt_resume" /\ resp'.pbStatus = "ok"
           /\ users[OwnerOf(resp'.token)].role = "service")
            => /\ resp'.status = 200
               /\ resp'.info = extract_session_info_from_record(OwnerOf(resp'.token), "service")]_vars

\* the service account's own password was answered 403 while a token of the
\* service account has a session that verify_token restored
C8_Witness ==
    /\ resp.op = "login" /\ resp.status = 403
    /\ resp.password = users[resp.identity].password
    /\ \E t \in Tokens : session[t] # NoSession /\ session[t].role = "service"

\* C9: a login attempt that follows five failed attempts for its identity, all
\* within the last 60 seconds, is answered 429 and the provider is not called.
C9_SixthAttemptLimited ==
    /\ (resp.op = "login" /\ resp.limited) => (resp.status = 429 /\ ~resp.pbCalled)
    /\ \A s \in Slots : ~req[s].limited

\* the sixth attempt carried the correct password and was answered 429
C9_Witness ==
    /\ resp.op = "login" /\ resp.limited /\ resp.status = 429
    /\ resp.password = users[resp.identity].password

\* C10: every session cache entry of an admin identity was written with a
\* TTL of 15 minutes, whichever operation wrote it and whatever keep_logged_in
\* was.
C10_AdminSessionsShort ==
    \A t \in Tokens :
        (session[t] # NoSession /\ session[t].is_admin) => session[t].ttl = AdminTTL

\* C11: get_dek_from_request for the balanced tier, finding nothing cached
\* under (user_id, token), raises the re-authenticate error, returns no DEK
\* and leaves the cache as it was.
C11_MissRaisesReauth ==
    [][(/\ calc'.op = "get_dek_from_request"
        /\ calc'.args.security_tier = "balanced"
        /\ DekEntries(calc'.args.user_id, calc'.args.token) = {})
          => (calc'.out = ReauthError /\ dekCache' = dekCache)]_vars

\* the miss happened with other parts cached and a request value that decodes to a key
C11_Witness ==
    /\ calc.op = "get_dek_from_request" /\ calc.args.security_tier = "balanced"
    /\ calc.out = ReauthError
    /\ dekCache # {}
    /\ b64decode(calc.args.dek_or_client_part) = DekOf(calc.args.user_id)

C17_TamperedOrWrongKeyFails ==
    (/\ calc.op = "decrypt_data"
     /\ ~\E e \in calc.blobs : e.out = calc.args.encrypted_data /\ e.key = calc.args.key)
       => Raises(calc.out)

\* a blob with a changed ciphertext was refused under the right key
C17_Witness ==
    /\ calc.op = "decrypt_data"
    /\ calc.out = DecryptError
    /\ \E e \in calc.blobs :
          /\ e.key = calc.args.key
          /\ e.out # calc.args.encrypted_data
          /\ b64decode(e.out).nonce = b64decode(calc.args.encrypted_data).nonce
          /\ b64decode(e.out).tag = b64decode(calc.args.encrypted_data).tag

C19_FreshBlob ==
    [][calc'.op = "encrypt_data" => \A e \in calc.blobs : e.out # calc'.out]_vars

\* the same plaintext was encrypted twice under the same key
C19_Witness ==
    \E e1 \in calc.blobs, e2 \in calc.blobs :
       /\ e1.op = "encrypt_data" /\ e2.op = "encrypt_data"
       /\ e1.data = e2.data /\ e1.key = e2.key
       /\ e1.out # e2.out

\* C12: after a login of a balanced-tier user the cache holds, under
\* (user_id, token), the server part encrypted under the server cache key
\* with 30 minutes to live, and the cookie does not carry the full DEK.
C12_BalancedLoginSplitsDek ==
    (resp.op = "login" /\ resp.status = 200 /\ SecurityTierOf(resp.identity) = "balanced")
       => /\ \E e \in DekEntries(resp.identity, resp.cookie.auth) :
                e.left = DekCacheTTL /\ ~Raises(decrypt_dek_part(e.encrypted_server_part))
          /\ resp.cookie.dek # DekOf(resp.identity)

\* C13: neither a user record nor a DEK cache entry ever holds a DEK or
\* the base64 of a DEK: a record holds the DEK wrapped under a key derived
\* from the password, the DEK wrapped under the admin's public key and the
\* encrypted fields; a cache entry holds the server part encrypted under the
\* server cache key.
C13_NoPlaintextDekStored ==
    /\ \A u \in Users, v \in Users :
          \A stored \in {users[u].user_wrapped_dek, users[u].admin_wrapped_dek,
                         users[u].encrypted_fields} :
             stored # DekOf(v) /\ stored # b64encode(DekOf(v))
    /\ \A u \in Users :
          /\ "nonce" \in DOMAIN b64decode(users[u].user_wrapped_dek)
          /\ "kdf" \in DOMAIN b64decode(users[u].user_wrapped_dek).ct.key
          /\ "rsa" \in DOMAIN b64decode(users[u].admin_wrapped_dek)
          /\ "nonce" \in DOMAIN b64decode(users[u].encrypted_fields)
    /\ \A e \in dekCache :
          /\ \A v \in Users :
                /\ e.encrypted_server_part # DekOf(v)
                /\ e.encrypted_server_part # b64encode(DekOf(v))
          /\ "nonce" \in DOMAIN b64decode(e.encrypted_server_part)
          /\ b64decode(e.encrypted_server_part).ct.key = ServerCacheKey

\* a record was created at a registration and its password was changed since
C13_Witness ==
    /\ users["new"].password = "p2"
    /\ get_user_dek("p2", users["new"].salt, users["new"].user_wrapped_dek) = DekOf("new")

\* C14: the record that change_password prepares unwraps under the new
\* password to the DEK the old record unwrapped to under the old password;
\* so every record unwraps under its current password to the DEK of its
\* registration, and the fields encrypted then still decrypt to the name.
C14_DekPreserved ==
    /\ \A s \in Slots :
          req[s].pc = "cp_patch" =>
             /\ ~Raises(get_user_dek(req[s].password, req[s].pbRec.salt,
                                     req[s].pbRec.user_wrapped_dek))
             /\ get_user_dek(req[s].new_password, req[s].updated.salt,
                             req[s].updated.user_wrapped_dek)
                  = get_user_dek(req[s].password, req[s].pbRec.salt,
                                 req[s].pbRec.user_wrapped_dek)
    /\ \A u \in Users :
          users[u].password # NoPassword =>
             /\ get_user_dek(users[u].password, users[u].salt, users[u].user_wrapped_dek)
                  = DekOf(u)
             /\ decrypt_fields(users[u].encrypted_fields,
                               get_user_dek(users[u].password, users[u].salt,
                                            users[u].user_wrapped_dek))
                  = [name |-> [str |-> u]]

\* the second change in a row was stored, from p1 to p2 and back, and the
\* fields of the start still decrypt
C14_Witness ==
    /\ \E s \in Slots :
          /\ req[s].pc = "cp_patched" /\ req[s].pbStatus = "ok"
          /\ req[s].current_session.id = "u1"
          /\ req[s].password = "p2" /\ req[s].new_password = "p1"
    /\ users["u1"].password = "p1"
    /\ b64decode(users["u1"].encrypted_fields).nonce = 0
    /\ decrypt_fields(users["u1"].encrypted_fields,
                      get_user_dek("p1", users["u1"].salt, users["u1"].user_wrapped_dek))
         = [name |-> [str |-> "u1"]]

\* C15: a password that is not the current one of the record does not unwrap
\* the DEK, and a login that reached the provider is answered 200 with the
\* current password and 401 with another one (500 if the provider could not
\* be reached): after a change from P1 to P2, P1 is out and P2 is in.
C15_OldPasswordOut ==
    /\ \A u \in Users, p \in Passwords :
          (users[u].password # NoPassword /\ p # users[u].password)
             => Raises(get_user_dek(p, users[u].salt, users[u].user_wrapped_dek))
    /\ (resp.op = "login" /\ resp.pbCalled /\ resp.pbStatus # "unreachable") =>
          IF resp.password = users[resp.identity].password
          THEN resp.status = 200
          ELSE resp.status = 401

\* after a change from p1 to p2 a login with p1 was rejected
C15_Witness ==
    /\ resp.op = "login" /\ resp.identity = "u1" /\ resp.password = "p1"
    /\ resp.status = 401
    /\ users["u1"].password = "p2"

\* C16: only the creation of a record writes its admin_wrapped_dek, and the
\* admin's private key takes from it the DEK that the current password
\* takes from user_wrapped_dek.
C16_AdminWrapKept ==
    /\ [](\A u \in Users :
             users[u].password # NoPassword =>
                AdminUnwrap(users[u].admin_wrapped_dek, AdminPrivateKey)
                  = get_user_dek(users[u].password, users[u].salt, users[u].user_wrapped_dek))
    /\ [][\A u \in Users :
             users'[u].admin_wrapped_dek # users[u].admin_wrapped_dek
                => (users[u].password = NoPassword /\ users'[u].password # NoPassword)]_vars

\* a record made at a registration has had its password changed
C16_Witness ==
    /\ users["new"].password = "p2"
    /\ b64decode(users["new"].admin_wrapped_dek).seed = 3
    /\ b64decode(users["new"].salt) > 4
    /\ AdminUnwrap(users["new"].admin_wrapped_dek, AdminPrivateKey) = DekOf("new")

\* C21: a request that found stored data which does not decrypt under its
\* DEK is answered 500, and a save that found such data leaves it in place.
C21_DecryptFailureReported ==
    (/\ resp.op \in {"account_info", "get_priority", "save_priority"}
     /\ resp.found # NoRecord
     /\ Raises(decrypt_fields(resp.found, resp.dek)))
       => /\ resp.status = 500
          /\ resp.op = "save_priority" => priorities[resp.identity] = resp.found

\* ------------------------------------------------ restored sessions
\* every login carries keep_logged_in; sessions run out of the cache and
\* verify_token restores them from the provider, one request at a time
InitExtended == InitWith([u \in Users |-> IF u = "u1" THEN MaxTokens - 1
                                          ELSE IF u = "adm" THEN MaxTokens - 2 ELSE 0])

NextExtended ==
    \/ StartVerify({1})
    \/ StartLogin({1}, {"u1", "adm"}, {TRUE}, {"ip1"}, MaxBurst)
    \/ AuthRefreshStep
    \/ AuthPasswordStep
    \/ VerifyResumeStep
    \/ LoginFinishStep
    \/ SessionExpiresAlone
    \/ Receive

SpecExtended == InitExtended /\ [][NextExtended]_vars

\* a response of verify_token that returns an identity after the provider
\* rotated the token: the new token travels in the auth cookie
RotatedResponse ==
    /\ resp.op = "verify"
    /\ resp.status = 200
    /\ resp.pbCalled
    /\ resp.cookie.auth # NoToken

RestoredResponse ==
    /\ resp.op = "verify"
    /\ resp.status = 200
    /\ resp.pbCalled
    /\ ~resp.cacheFailed

RestoredToken == IF resp.cookie.auth # NoToken THEN resp.cookie.auth ELSE resp.token

\* C23: a session that verify_token restores or rotates after a cache miss gets
\* the TTL the login policy gives it: 15 minutes for an admin, 30 days for a
\* non-admin whose session was established with keep_logged_in (as every
\* session of SpecExtended is).
C23_RestoreFollowsLoginPolicy ==
    RestoredResponse =>
        session[RestoredToken].ttl = LoginTTL(resp.info.is_admin, TRUE)

\* the max-age of the cookies the client holds after the response: a cookie the
\* response sets takes the response's max-age, any other keeps the max-age of
\* the login that set it (in SpecExtended a login with keep_logged_in)
HeldMaxAge == LoginTTL(resp.info.is_admin, TRUE)
AuthCookieMaxAge == IF resp.cookie.auth # NoToken THEN resp.cookie.max_age ELSE HeldMaxAge
DekCookieMaxAge == IF resp.cookie.dek # NoDek THEN resp.cookie.max_age ELSE HeldMaxAge

\* a response of an operation that wrote a session entry
WroteSession ==
    \/ resp.op = "login" /\ resp.status = 200
    \/ RestoredResponse

\* C25: an operation that writes a session entry with TTL t for a token leaves
\* the client's auth cookie and DEK cookie for that token with max-age t.
C25_CookiesFollowTTL ==
    WroteSession =>
        /\ AuthCookieMaxAge = session[RestoredToken].ttl
        /\ DekCookieMaxAge = session[RestoredToken].ttl

\* the step is a balanced reconstruction that returned a key
BalancedHit ==
    /\ calc'.op = "get_dek_from_request"
    /\ calc'.args.security_tier = "balanced"
    /\ ~Raises(calc'.out)

\* the entry of (user_id, token) is gone after the step
GoneAfter(e) == \A c \in dekCache' : ~(c.user_id = e.user_id /\ c.token = e.token)

\* C24: a successful balanced reconstruction writes the entry again with the
\* full 30 minutes and the same encrypted_server_part, so an entry used within
\* every 30 minutes stays; an entry goes only when 30 minutes passed since its
\* last use, it is then gone, and the next reconstruction raises the
\* re-authenticate error.
C24_UseRestartsTTL ==
    [][/\ BalancedHit =>
              \A e \in DekEntries(calc'.args.user_id, calc'.args.token) :
                  /\ [e EXCEPT !.left = DekCacheTTL] \in dekCache'
                  /\ \A c \in dekCache' :
                        (c.user_id = e.user_id /\ c.token = e.token)
                           => c.encrypted_server_part = e.encrypted_server_part
       /\ \A e \in dekCache :
              /\ GoneAfter(e) => (calc'.op = "none" /\ e.left < DekCacheTTL)
              /\ (calc'.op = "none" /\ e.left < DekCacheTTL) => GoneAfter(e)
              /\ (calc'.op = "none" /\ e.left = DekCacheTTL) => ~GoneAfter(e)
       /\ (/\ calc'.op = "get_dek_from_request"
           /\ calc'.args.security_tier = "balanced"
           /\ \A c \in dekCache : ~(c.user_id = calc'.args.user_id /\ c.token = calc'.args.token))
             => calc'.out = ReauthError
      ]_vars

\* time passed, a reconstruction gave the user's DEK and its entry has the full
\* 30 minutes while another entry has aged
C24_Witness ==
    /\ calc.op = "get_dek_from_request"
    /\ calc.args.security_tier = "balanced"
    /\ calc.out = DekOf(calc.args.user_id)
    /\ \E e \in DekEntries(calc.args.user_id, calc.args.token) : e.left = DekCacheTTL
    /\ \E c \in dekCache : c.left < DekCacheTTL

\* ----------------------------------------------------------- last seen
\* lastSeen.throttle[u]: seconds the key lastseen:<u> still lives (0: no key)
\* lastSeen.age[u]: seconds since the provider last wrote lastSeen of u, counted
\*                  up to the interval
\* lastSeen.early: (history) the users whose lastSeen was written again within
\*                 the interval
FreeTasks == {i \in 1..MaxTasks : lastSeen.tasks[i] = NoTask}

\* update_last_seen up to its await of the PATCH: a throttle key ends the task,
\* a failed read of it is passed over
update_last_seen(i, user_id, token) ==
    \E getOk \in BOOLEAN :
        lastSeen' = IF getOk /\ lastSeen.throttle[user_id] > 0
                    THEN lastSeen
                    ELSE [lastSeen EXCEPT !.tasks[i] =
                             [pc |-> "patching", user_id |-> user_id, token |-> token]]

\* the provider answers the PATCH of users/records/<user_id>: with 200 the
\* record has the new lastSeen; any other answer or no answer ends the task
PbPatchLastSeen(i) ==
    LET task == lastSeen.tasks[i] IN
    /\ task.pc = "patching"
    /\ \E answers \in BOOLEAN :
          lastSeen' = IF answers /\ task.token \in tokValid /\ OwnerOf(task.token) = task.user_id
                      THEN [lastSeen EXCEPT
                               !.tasks[i] = [task EXCEPT !.pc = "patched"],
                               !.age[task.user_id] = 0,
                               !.early = IF lastSeen.age[task.user_id] < LastSeenInterval
                                         THEN @ \cup {task.user_id} ELSE @]
                      ELSE [lastSeen EXCEPT !.tasks[i] = NoTask]
    /\ UNCHANGED <<priorities, calc, pbvars, redisvars, req, resp, histvars>>

\* update_last_seen after a 200: the throttle key is set for the interval, a
\* failed setex is passed over
UpdateLastSeenResume(i) ==
    LET task == lastSeen.tasks[i] IN
    /\ task.pc = "patched"
    /\ \E setOk \in BOOLEAN :
          lastSeen' = [lastSeen EXCEPT
                          !.tasks[i] = NoTask,
                          !.throttle[task.user_id] = IF setOk THEN LastSeenInterval ELSE @]
    /\ UNCHANGED <<priorities, calc, pbvars, redisvars, req, resp, histvars>>

\* d seconds pass for the throttle keys and the records
SeenTick(d) ==
    /\ d > 0
    /\ \E u \in Users : lastSeen.throttle[u] > 0 \/ lastSeen.age[u] < LastSeenInterval
    /\ lastSeen' = [lastSeen EXCEPT
                       !.throttle = [u \in Users |-> IF @[u] > d THEN @[u] - d ELSE 0],
                       !.age = [u \in Users |-> IF @[u] + d < LastSeenInterval
                                                THEN @[u] + d ELSE LastSeenInterval]]
    /\ UNCHANGED <<priorities, calc, pbvars, redisvars, req, resp, histvars>>

\* the client takes the response; when verify_token returned an identity, the
\* task it created with asyncio.create_task runs up to its first await
ReceiveSeen ==
    /\ resp # NoResp
    /\ resp' = NoResp
    /\ IF resp.op = "verify" /\ resp.status = 200
       THEN \E i \in FreeTasks : update_last_seen(i, resp.info.id, RestoredToken)
       ELSE UNCHANGED lastSeen
    /\ UNCHANGED <<priorities, calc, pbvars, redisvars, req, histvars>>

PatchLastSeenStep == \E i \in 1..MaxTasks : Ready /\ PbPatchLastSeen(i)
LastSeenResumeStep == \E i \in 1..MaxTasks : Ready /\ UpdateLastSeenResume(i)
SeenTime == \E d \in {LastSeenInterval \div 2, LastSeenInterval} : Ready /\ SeenTick(d)

\* one user's requests, one at a time, and the last-seen tasks they leave behind
InitSeen == InitWith([u \in Users |-> IF u = "u1" THEN 1 ELSE 0])

NextSeen ==
    \/ StartVerify({1})
    \/ StartLogin({1}, {"u1"}, {FALSE}, {"ip1"}, MaxBurst)
    \/ AuthRefreshStep
    \/ AuthPasswordStep
    \/ VerifyResumeStep
    \/ LoginFinishStep
    \/ SessionExpiresAlone
    \/ PatchLastSeenStep
    \/ LastSeenResumeStep
    \/ SeenTime
    \/ ReceiveSeen

SpecSeen == InitSeen /\ [][NextSeen]_vars

\* C26: lastSeen of a user is written to the record store at most once per
\* hour, however many requests verify_token validates, concurrent ones included.
C26_OncePerHour == lastSeen.early = {}

\* -------------------------------------------------- racing refreshes
Cached == {t \in Tokens : session[t] # NoSession}

\* a user logs in once; whenever the cache has lost every session, requests
\* with the user's tokens arrive, also while others are still at the provider
FirstLogin == hadSession = {} /\ StartLogin({1}, {"u1"}, {FALSE}, {"ip1"}, MaxBurst)
VerifyOnMiss == Cached = {} /\ StartVerify(Slots)

InitRace == InitWith([u \in Users |-> IF u = "u1" THEN MaxTokens ELSE 0])

NextRace ==
    \/ FirstLogin
    \/ VerifyOnMiss
    \/ AuthRefreshStep
    \/ AuthPasswordStep
    \/ VerifyResumeStep
    \/ LoginFinishStep
    \/ SessionExpiresAlone
    \/ Receive

SpecRace == InitRace /\ [][NextRace]_vars

\* C27: verify_token calls that all missed the cache and refreshed leave the
\* cache as one call alone would have: with one entry for the session at most,
\* and with none under a token the provider rotated away from.
C27_RaceLeavesOneEntry == Cardinality(Cached) <= 1

\* the tokens that a change_password or a logout has invalidated
Invalidated == revoked \cup blacklist

\* C28: a verify_token call that resumes after the provider's answer, however
\* it interleaves with change_password or logout, writes no session entry for
\* a token that was invalidated and has no entry.
C28_NoEntryForInvalidated ==
    [][\A s \in Slots :
          (req[s].pc = "vt_resume" /\ req'[s] # req[s])
             => \A t \in Invalidated :
                   session[t] = NoSession => session'[t] = NoSession]_vars

ClockStep == TimeAlone({LoginWindow \div 3})

SpecRateFair ==
    /\ InitRate
    /\ [][NextRate]_vars
    /\ SF_vars(ClockStep)
    /\ WF_vars(AuthPasswordStep)
    /\ WF_vars(LoginFinishStep)
    /\ WF_vars(Receive)

\* C30: every login rate-limit counter, per IP and per identity, is removed in
\* the end, by a successful login or by its 60 seconds running out; an attempt
\* answered 429 changes neither the count nor the remaining time of a counter.
C30_LockoutEnds ==
    /\ [][(resp'.op = "login" /\ resp'.status = 429 /\ resp = NoResp)
            => (rlIp' = rlIp /\ rlId' = rlId)]_vars
    /\ \A ip \in IPs : (rlIp[ip] # NoCounter) ~> (rlIp[ip] = NoCounter)
    /\ \A u \in {"u1"} : (rlId[u] # NoCounter) ~> (rlId[u] = NoCounter)

\* an attempt was answered 429 while the counter of its identity, at the
\* limit, had 20 seconds left
C30_Witness ==
    /\ resp.op = "login" /\ resp.status = 429
    /\ rlId[resp.identity].n = LoginLimit
    /\ rlId[resp.identity].left = LoginWindow \div 3

====
